---- MODULE Spec2Model ----
(***************************************************************************)
(* A model of vaex's encoding module (packages/vaex-core/vaex/encoding.py): *)
(* the Encoding session (blob store, object-spec table, object table), the *)
(* binary envelope (_pack_blobs / _unpack_blobs / binary.serialize /        *)
(* binary.deserialize), and the array, function, variable and binner        *)
(* codecs.                                                                  *)
(*                                                                          *)
(* Python values are modelled as follows.                                   *)
(*   bytes         a sequence of integers 0..255                            *)
(*   str           a sequence of character codes (ASCII only)               *)
(*   JSON tree     a record tagged by t: null, int, str, list, dict; a dict *)
(*                 is the sequence of its (key, value) pairs in insertion   *)
(*                 order, as a Python dict keeps them                       *)
(*   an exception  a record with ok = FALSE and the exception's name        *)
(***************************************************************************)
EXTENDS Integers, Sequences, FiniteSets, TLC

(***************************************************************************)
(* Characters and strings                                                   *)
(***************************************************************************)
LowerCase == <<"a","b","c","d","e","f","g","h","i","j","k","l","m",
               "n","o","p","q","r","s","t","u","v","w","x","y","z">>

UpperCase == <<"A","B","C","D","E","F","G","H","I","J","K","L","M",
               "N","O","P","Q","R","S","T","U","V","W","X","Y","Z">>

Digits == <<"0","1","2","3","4","5","6","7","8","9">>

\* ord(c) for the ASCII characters the module's strings are made of
Ord(c) ==
    IF \E i \in 1..26 : LowerCase[i] = c
    THEN 96 + (CHOOSE i \in 1..26 : LowerCase[i] = c)
    ELSE IF \E i \in 1..26 : UpperCase[i] = c
    THEN 64 + (CHOOSE i \in 1..26 : UpperCase[i] = c)
    ELSE IF \E i \in 1..10 : Digits[i] = c
    THEN 47 + (CHOOSE i \in 1..10 : Digits[i] = c)
    ELSE CASE c = " "  -> 32
           [] c = "\"" -> 34
           [] c = ","  -> 44
           [] c = "-"  -> 45
           [] c = ":"  -> 58
           [] c = "<"  -> 60
           [] c = ">"  -> 62
           [] c = "["  -> 91
           [] c = "]"  -> 93
           [] c = "_"  -> 95
           [] c = "{"  -> 123
           [] c = "|"  -> 124
           [] c = "}"  -> 125

\* a Python str literal, written as the tuple of its characters
Str(chars) == [i \in 1..Len(chars) |-> Ord(chars[i])]

RECURSIVE Concat(_)
\* b''.join(seqs)
Concat(seqs) ==
    IF seqs = <<>> THEN <<>> ELSE Head(seqs) \o Concat(Tail(seqs))

\* s.startswith(prefix)
StartsWith(s, prefix) ==
    /\ Len(s) >= Len(prefix)
    /\ SubSeq(s, 1, Len(prefix)) = prefix

\* s.endswith(suffix)
EndsWith(s, suffix) ==
    /\ Len(s) >= Len(suffix)
    /\ SubSeq(s, Len(s) - Len(suffix) + 1, Len(s)) = suffix

\* Python's s[i1:i2] on a sequence: negative indices count from the end,
\* out-of-range indices are clamped, an empty range yields the empty slice
SliceIndex(n, i) ==
    IF i < 0 THEN (IF i + n < 0 THEN 0 ELSE i + n)
    ELSE IF i > n THEN n ELSE i

Slice(s, i1, i2) ==
    LET a == SliceIndex(Len(s), i1)
        b == SliceIndex(Len(s), i2)
    IN  IF a < b THEN SubSeq(s, a + 1, b) ELSE <<>>

(***************************************************************************)
(* struct.pack / struct.unpack with format 'q': an 8-byte signed word in    *)
(* native (little-endian) order, two's complement                           *)
(***************************************************************************)
WordSize == 8

\* the largest magnitude the model's integers carry; a word beyond it
\* unpacks to +-WordLimit, which is beyond every buffer length of the model
WordLimit == 2147483647

Pow256(k) == CASE k = 0 -> 1 [] k = 1 -> 256 [] k = 2 -> 65536 [] k = 3 -> 16777216

\* byte k (0 = lowest) of the non-negative integer u < 2^31
ByteOf(u, k) == IF k < 4 THEN (u \div Pow256(k)) % 256 ELSE 0

Pack64(v) ==
    [k \in 1..WordSize |->
        IF v >= 0 THEN ByteOf(v, k - 1) ELSE 255 - ByteOf(-v - 1, k - 1)]

Unpack64(b) ==
    LET neg  == b[WordSize] >= 128
        m(k) == IF neg THEN 255 - b[k] ELSE b[k]
        fits == /\ \A k \in 5..WordSize : m(k) = 0
                /\ m(4) < 128
        u    == m(1) + 256 * m(2) + 65536 * m(3) + 16777216 * m(4)
    IN  IF fits THEN (IF neg THEN -u - 1 ELSE u)
        ELSE (IF neg THEN -WordLimit ELSE WordLimit)

\* struct.pack(f'{n}q', *values)
PackWords(values) == Concat([i \in 1..Len(values) |-> Pack64(values[i])])

\* struct.unpack(f'{n}q', data) for a data of exactly n words
UnpackWords(data) ==
    [i \in 1..(Len(data) \div WordSize) |->
        Unpack64(SubSeq(data, WordSize * (i - 1) + 1, WordSize * i))]

(***************************************************************************)
(* _pack_blobs and _unpack_blobs                                            *)
(***************************************************************************)
Err(name) == [ok |-> FALSE, err |-> name]

RECURSIVE CumSum(_)
\* np.cumsum(xs)
CumSum(xs) ==
    IF xs = <<>> THEN <<>>
    ELSE LET init == CumSum(SubSeq(xs, 1, Len(xs) - 1))
         IN  Append(init, (IF init = <<>> THEN 0 ELSE init[Len(init)]) + xs[Len(xs)])

\* the lengths taken in the wrong order (a mutant of PackOffsets)
PackOffsetsReversed(blobs) ==
    LET count         == Len(blobs)
        lenghts       == [i \in 1..count |-> Len(blobs[count + 1 - i])]
        header_length == WordSize * (2 + count)
        sums          == CumSum(<<0>> \o lenghts)
    IN  [i \in 1..(count + 1) |-> sums[i] + header_length]

\* the offsets _pack_blobs writes after the count: count + 1 of them
PackOffsets(blobs) ==
    LET count         == Len(blobs)
        lenghts       == [i \in 1..count |-> Len(blobs[i])]
        header_length == WordSize * (2 + count)
        sums          == CumSum(<<0>> \o lenghts)
    IN  [i \in 1..(count + 1) |-> sums[i] + header_length]

_pack_blobs(blobs) ==
    LET count   == Len(blobs)
        offsets == PackOffsets(blobs)
        bytes   == PackWords(<<count>> \o offsets) \o Concat(blobs)
    IN  IF offsets[Len(offsets)] = Len(bytes)
        THEN [ok |-> TRUE, bytes |-> bytes]
        ELSE Err("AssertionError")

\* no check of the offsets at all (a mutant of offsets_valid)
offsets_unchecked(offsets, bytes) == TRUE

\* assert offsets[-1] == len(bytes)
offsets_valid(offsets, bytes) == offsets[Len(offsets)] = Len(bytes)

\* a slice that takes one byte too many (a mutant of unpack_slice)
unpack_slice_inclusive(bytes, i1, i2) == Slice(bytes, i1, i2 + 1)

\* bytes[i1:i2]
unpack_slice(bytes, i1, i2) == Slice(bytes, i1, i2)

_unpack_blobs(bytes) ==
    IF Len(bytes) < WordSize THEN Err("struct.error")
    ELSE
    LET count == Unpack64(SubSeq(bytes, 1, WordSize))
    IN  IF count < -1 THEN Err("struct.error")
        ELSE IF count > Len(bytes) THEN Err("struct.error")
        ELSE IF Len(bytes) - WordSize < WordSize * (count + 1) THEN Err("struct.error")
        ELSE
        LET offsets == UnpackWords(SubSeq(bytes, WordSize + 1, WordSize * (count + 2)))
        IN  IF offsets = <<>> THEN Err("IndexError")
            ELSE IF ~ offsets_valid(offsets, bytes) THEN Err("AssertionError")
            ELSE [ok |-> TRUE,
                  blobs |-> [i \in 1..count |->
                                unpack_slice(bytes, offsets[i], offsets[i + 1])]]

(***************************************************************************)
(* json.dumps and json.loads on JSON trees (integers, strings without       *)
(* escapes, null, booleans, lists and dicts with string keys; floats and    *)
(* escape sequences are outside the modelled values)                        *)
(***************************************************************************)
JNull == [t |-> "null"]

JBool(b) == [t |-> "bool", b |-> b]

JInt(n) == [t |-> "int", n |-> n]

JStr(s) == [t |-> "str", s |-> s]

JList(items) == [t |-> "list", items |-> items]

JDict(pairs) == [t |-> "dict", pairs |-> pairs]

KV(k, v) == [k |-> k, v |-> v]

\* key in d
DictHas(pairs, key) == \E i \in 1..Len(pairs) : pairs[i].k = key

\* d[key], for a key that is present
DictGet(pairs, key) == pairs[CHOOSE i \in 1..Len(pairs) : pairs[i].k = key].v

\* d[key] = value: a present key keeps its place, a new one goes last
DictSet(pairs, key, value) ==
    IF DictHas(pairs, key)
    THEN [i \in 1..Len(pairs) |->
            IF pairs[i].k = key THEN KV(key, value) ELSE pairs[i]]
    ELSE Append(pairs, KV(key, value))

\* list(d.keys())
DictKeys(pairs) == [i \in 1..Len(pairs) |-> pairs[i].k]

RECURSIVE Join(_, _)
\* sep.join(parts)
Join(parts, sep) ==
    IF parts = <<>> THEN <<>>
    ELSE IF Len(parts) = 1 THEN parts[1]
    ELSE parts[1] \o sep \o Join(Tail(parts), sep)

RECURSIVE IntToStr(_)
\* str(n)
IntToStr(n) ==
    IF n < 0 THEN <<45>> \o IntToStr(-n)
    ELSE IF n < 10 THEN <<48 + n>>
    ELSE IntToStr(n \div 10) \o <<48 + (n % 10)>>

Quote(s) == <<34>> \o s \o <<34>>

RECURSIVE json_dumps(_)
\* json.dumps(j) with the default separators ', ' and ': '
json_dumps(j) ==
    CASE j.t = "null" -> Str(<<"n","u","l","l">>)
      [] j.t = "bool" -> IF j.b THEN Str(<<"t","r","u","e">>)
                                ELSE Str(<<"f","a","l","s","e">>)
      [] j.t = "int"  -> IntToStr(j.n)
      [] j.t = "str"  -> Quote(j.s)
      [] j.t = "list" ->
            <<91>> \o Join([i \in 1..Len(j.items) |-> json_dumps(j.items[i])],
                           <<44, 32>>) \o <<93>>
      [] j.t = "dict" ->
            <<123>> \o Join([i \in 1..Len(j.pairs) |->
                               Quote(j.pairs[i].k) \o <<58, 32>>
                                   \o json_dumps(j.pairs[i].v)],
                            <<44, 32>>) \o <<125>>

ParseFail == [ok |-> FALSE, val |-> JNull, pos |-> 0]

Parsed(val, pos) == [ok |-> TRUE, val |-> val, pos |-> pos]

Whitespace == {32, 9, 10, 13}

RECURSIVE SkipWs(_, _)
SkipWs(s, i) ==
    IF i <= Len(s) /\ s[i] \in Whitespace THEN SkipWs(s, i + 1) ELSE i

\* the text s[i..] starts with the literal word
LiteralAt(s, i, word) ==
    /\ i + Len(word) - 1 <= Len(s)
    /\ SubSeq(s, i, i + Len(word) - 1) = word

RECURSIVE FindQuote(_, _)
\* the index of the first quote at or after s[j], 0 when there is none
FindQuote(s, j) ==
    IF j > Len(s) THEN 0
    ELSE IF s[j] = 34 THEN j
    ELSE FindQuote(s, j + 1)

\* a string whose opening quote is at s[i]: up to the next quote; control
\* characters are rejected, and escapes are outside the modelled strings
ParseString(s, i) ==
    LET j == FindQuote(s, i + 1)
    IN  IF j = 0 THEN ParseFail
        ELSE IF \E k \in (i + 1)..(j - 1) : s[k] < 32 \/ s[k] = 92
        THEN ParseFail
        ELSE Parsed(JStr(SubSeq(s, i + 1, j - 1)), j + 1)

IsDigit(c) == c >= 48 /\ c <= 57

RECURSIVE DigitsEnd(_, _)
\* the first index at or after i that holds no digit
DigitsEnd(s, i) ==
    IF i <= Len(s) /\ IsDigit(s[i]) THEN DigitsEnd(s, i + 1) ELSE i

RECURSIVE DigitsValue(_, _, _)
DigitsValue(s, i, j) ==
    IF i >= j THEN 0
    ELSE DigitsValue(s, i, j - 1) * 10 + (s[j - 1] - 48)

\* -?(0|[1-9][0-9]*), an integer
ParseNumber(s, i) ==
    LET neg   == s[i] = 45
        start == IF neg THEN i + 1 ELSE i
        stop  == IF start <= Len(s) /\ s[start] = 48
                 THEN start + 1 ELSE DigitsEnd(s, start)
    IN  IF stop = start THEN ParseFail
        ELSE Parsed(JInt(IF neg THEN -DigitsValue(s, start, stop)
                         ELSE DigitsValue(s, start, stop)), stop)

RECURSIVE ParseValue(_, _), ParseElements(_, _, _), ParseMembers(_, _, _)
\* the value that starts at s[i] (whitespace before it already skipped)
ParseValue(s, i) ==
    IF i > Len(s) THEN ParseFail
    ELSE CASE s[i] = 34 -> ParseString(s, i)
           [] s[i] = 91 ->
                LET j == SkipWs(s, i + 1)
                IN  IF j <= Len(s) /\ s[j] = 93
                    THEN Parsed(JList(<<>>), j + 1)
                    ELSE ParseElements(s, j, <<>>)
           [] s[i] = 123 ->
                LET j == SkipWs(s, i + 1)
                IN  IF j <= Len(s) /\ s[j] = 125
                    THEN Parsed(JDict(<<>>), j + 1)
                    ELSE ParseMembers(s, j, <<>>)
           [] s[i] = 45 \/ IsDigit(s[i]) -> ParseNumber(s, i)
           [] LiteralAt(s, i, Str(<<"n","u","l","l">>)) -> Parsed(JNull, i + 4)
           [] LiteralAt(s, i, Str(<<"t","r","u","e">>)) -> Parsed(JBool(TRUE), i + 4)
           [] LiteralAt(s, i, Str(<<"f","a","l","s","e">>)) -> Parsed(JBool(FALSE), i + 5)
           [] OTHER -> ParseFail

\* the elements of a list, the next one starting at s[i]
ParseElements(s, i, acc) ==
    LET r == ParseValue(s, i)
        j == SkipWs(s, r.pos)
    IN  IF ~ r.ok \/ j > Len(s) THEN ParseFail
        ELSE IF s[j] = 44
             THEN ParseElements(s, SkipWs(s, j + 1), Append(acc, r.val))
        ELSE IF s[j] = 93
             THEN Parsed(JList(Append(acc, r.val)), j + 1)
        ELSE ParseFail

\* the members of a dict, the next key's quote expected at s[i]
ParseMembers(s, i, acc) ==
    IF i > Len(s) \/ s[i] # 34 THEN ParseFail
    ELSE
    LET key   == ParseString(s, i)
        colon == SkipWs(s, key.pos)
    IN  IF ~ key.ok \/ colon > Len(s) \/ s[colon] # 58 THEN ParseFail
        ELSE
        LET r == ParseValue(s, SkipWs(s, colon + 1))
            j == SkipWs(s, r.pos)
        IN  IF ~ r.ok \/ j > Len(s) THEN ParseFail
            ELSE IF s[j] = 44
                 THEN ParseMembers(s, SkipWs(s, j + 1), DictSet(acc, key.val.s, r.val))
            ELSE IF s[j] = 125
                 THEN Parsed(JDict(DictSet(acc, key.val.s, r.val)), j + 1)
            ELSE ParseFail

\* json.loads(s): one value, then nothing but whitespace
json_loads(s) ==
    LET r == ParseValue(s, SkipWs(s, 1))
    IN  IF r.ok /\ SkipWs(s, r.pos) = Len(s) + 1
        THEN [ok |-> TRUE, val |-> r.val]
        ELSE Err("JSONDecodeError")

RECURSIVE utf8_encode(_)
\* str.encode('utf8'): one to four bytes for each code point
utf8_encode(s) ==
    IF \A i \in 1..Len(s) : s[i] < 128 THEN s
    ELSE LET c == Head(s)
             bs == IF c < 128 THEN <<c>>
                   ELSE IF c < 2048 THEN <<192 + (c \div 64), 128 + (c % 64)>>
                   ELSE IF c < 65536
                        THEN <<224 + (c \div 4096), 128 + ((c \div 64) % 64),
                               128 + (c % 64)>>
                   ELSE <<240 + (c \div 262144), 128 + ((c \div 4096) % 64),
                          128 + ((c \div 64) % 64), 128 + (c % 64)>>
         IN  bs \o utf8_encode(Tail(s))

\* b is a continuation byte within lo..hi
Continuation(bytes, i, lo, hi) ==
    i <= Len(bytes) /\ bytes[i] >= lo /\ bytes[i] <= hi

RECURSIVE Utf8DecodeFrom(_, _, _)
\* the code points of bytes[i..], after those of acc; ill-formed sequences
\* (stray continuation bytes, overlong forms, surrogates, values above
\* U+10FFFF, truncated sequences) are errors
Utf8DecodeFrom(bytes, i, acc) ==
    IF i > Len(bytes) THEN [ok |-> TRUE, val |-> acc]
    ELSE LET b == bytes[i]
         IN  IF b < 128 THEN Utf8DecodeFrom(bytes, i + 1, Append(acc, b))
             ELSE IF b >= 194 /\ b <= 223 /\ Continuation(bytes, i + 1, 128, 191)
                  THEN Utf8DecodeFrom(bytes, i + 2,
                           Append(acc, (b - 192) * 64 + (bytes[i + 1] - 128)))
             ELSE IF /\ b >= 224 /\ b <= 239
                     /\ Continuation(bytes, i + 1, IF b = 224 THEN 160 ELSE 128,
                                                   IF b = 237 THEN 159 ELSE 191)
                     /\ Continuation(bytes, i + 2, 128, 191)
                  THEN Utf8DecodeFrom(bytes, i + 3,
                           Append(acc, (b - 224) * 4096 + (bytes[i + 1] - 128) * 64
                                       + (bytes[i + 2] - 128)))
             ELSE IF /\ b >= 240 /\ b <= 244
                     /\ Continuation(bytes, i + 1, IF b = 240 THEN 144 ELSE 128,
                                                   IF b = 244 THEN 143 ELSE 191)
                     /\ Continuation(bytes, i + 2, 128, 191)
                     /\ Continuation(bytes, i + 3, 128, 191)
                  THEN Utf8DecodeFrom(bytes, i + 4,
                           Append(acc, (b - 240) * 262144 + (bytes[i + 1] - 128) * 4096
                                       + (bytes[i + 2] - 128) * 64 + (bytes[i + 3] - 128)))
             ELSE Err("UnicodeDecodeError")

\* bytes.decode('utf8'), str(bytes, encoding='utf-8')
utf8_decode(bytes) ==
    IF \A i \in 1..Len(bytes) : bytes[i] < 128
    THEN [ok |-> TRUE, val |-> bytes]
    ELSE Utf8DecodeFrom(bytes, 1, <<>>)

(***************************************************************************)
(* class Encoding: the session.  blobs and _objects are dicts (sequences of *)
(* pairs); _object_specs is kept as a JSON dict, since binary.deserialize   *)
(* assigns it a parsed JSON value                                           *)
(***************************************************************************)
Encoding__init ==
    [blobs |-> <<>>, _object_specs |-> JDict(<<>>), _objects |-> <<>>]

BlobPrefix == Str(<<"b","l","o","b",":">>)

\* str(uuid.uuid4()) for the n-th call of the generator: distinct strings,
\* not in sorted order
Uuid(n) == <<97 + ((17 * n) % 26)>>

\* memoryview(buffer).tobytes(): a copy of the buffer's bytes
tobytes(buffer) == buffer

\* a store that keeps one entry per content (a mutant of blobs_store)
blobs_store_dedup(blobs, blob_id, buffer) ==
    IF \E i \in 1..Len(blobs) : blobs[i].v = tobytes(buffer)
    THEN blobs
    ELSE DictSet(blobs, blob_id, tobytes(buffer))

\* self.blobs[blob_id] = memoryview(buffer).tobytes()
blobs_store(blobs, blob_id, buffer) == DictSet(blobs, blob_id, tobytes(buffer))

\* the reference add_blob returns for the id it drew
blob_ref(blob_id) == BlobPrefix \o blob_id

\* add_blob on a running state st = [e: the session, uuid: the number of ids
\* the generator has given out, calls: the add_blob calls made so far]
add_blob(st, buffer) ==
    LET blob_id == Uuid(st.uuid)
    IN  [st |-> [e     |-> [st.e EXCEPT !.blobs = blobs_store(@, blob_id, buffer)],
                 uuid  |-> st.uuid + 1,
                 calls |-> Append(st.calls,
                                  [ref |-> blob_ref(blob_id), bytes |-> buffer])],
         ref |-> blob_ref(blob_id)]

get_blob(e, blob_ref_) ==
    IF ~ StartsWith(blob_ref_, BlobPrefix) THEN Err("AssertionError")
    ELSE LET blob_id == Slice(blob_ref_, 5, Len(blob_ref_))
         IN  IF DictHas(e.blobs, blob_id)
             THEN [ok |-> TRUE, val |-> DictGet(e.blobs, blob_id)]
             ELSE Err("KeyError")

\* the guard of set_object: assert id not in self._objects
set_object_allowed(e, id) == ~ DictHas(e._objects, id)

set_object(e, id, obj) ==
    IF ~ set_object_allowed(e, id)
    THEN [ok |-> FALSE, err |-> "AssertionError", e |-> e]
    ELSE [ok |-> TRUE, err |-> "", e |-> [e EXCEPT !._objects = DictSet(@, id, obj)]]

get_object(e, id) ==
    IF DictHas(e._objects, id)
    THEN [ok |-> TRUE, val |-> DictGet(e._objects, id)]
    ELSE Err("KeyError")

has_object(e, id) == DictHas(e._objects, id)

\* no assertion at all (a mutant of set_object_spec_allowed)
set_object_spec_unguarded(e, id) == TRUE

\* the guard of set_object_spec: assert id not in self._object_specs
set_object_spec_allowed(e, id) == ~ DictHas(e._object_specs.pairs, id)

set_object_spec(e, id, obj) ==
    IF ~ set_object_spec_allowed(e, id)
    THEN [ok |-> FALSE, err |-> "AssertionError", e |-> e]
    ELSE [ok |-> TRUE, err |-> "",
          e |-> [e EXCEPT !._object_specs = JDict(DictSet(@.pairs, id, obj))]]

get_object_spec(e, id) ==
    IF DictHas(e._object_specs.pairs, id)
    THEN [ok |-> TRUE, val |-> DictGet(e._object_specs.pairs, id)]
    ELSE Err("KeyError")

has_object_spec(e, id) == DictHas(e._object_specs.pairs, id)

(***************************************************************************)
(* class binary: the binary envelope of a session                           *)
(***************************************************************************)
KeyData == Str(<<"d","a","t","a">>)

KeyBlobRefs == Str(<<"b","l","o","b","_","r","e","f","s">>)

KeyObjects == Str(<<"o","b","j","e","c","t","s">>)

\* the metadata document binary.serialize dumps as blob 0
serialize_document(data, e) ==
    LET blob_refs == DictKeys(e.blobs)
    IN  JDict(<<KV(KeyData, data),
                KV(KeyBlobRefs, JList([i \in 1..Len(blob_refs) |-> JStr(blob_refs[i])])),
                KV(KeyObjects, e._object_specs)>>)

binary_serialize(data, e) ==
    LET blob_refs == DictKeys(e.blobs)
        blobs     == [i \in 1..Len(blob_refs) |-> DictGet(e.blobs, blob_refs[i])]
        json_blob == json_dumps(serialize_document(data, e))
    IN  _pack_blobs(<<utf8_encode(json_blob)>> \o blobs)

RECURSIVE ZipDict(_, _, _)
\* {key: blob for key, blob in zip(keys, blobs)}, built onto acc
ZipDict(keys, blobs, acc) ==
    IF keys = <<>> \/ blobs = <<>> THEN acc
    ELSE ZipDict(Tail(keys), Tail(blobs), DictSet(acc, Head(keys).s, Head(blobs)))

\* the new blobs added to the old store (a mutant of deserialize_blobs)
deserialize_blobs_merge(old, blob_refs, blobs) == ZipDict(blob_refs, blobs, old)

\* the blob store binary.deserialize builds from the metadata's blob_refs and
\* the envelope's blobs 1..M-1: the old store is not consulted
deserialize_blobs(old, blob_refs, blobs) == ZipDict(blob_refs, blobs, <<>>)

\* binary.deserialize(data, encoding): the value returned or the exception
\* raised, and the session as the call leaves it.  A blob_refs that is no
\* list of strings is reported as a TypeError (no envelope of the model
\* carries one).
binary_deserialize(data, e) ==
    LET u == _unpack_blobs(data)
        fail(name) == [ok |-> FALSE, err |-> name, val |-> JNull, e |-> e]
    IN  IF ~ u.ok THEN fail(u.err)
        ELSE IF u.blobs = <<>> THEN fail("ValueError")
        ELSE
        LET text == utf8_decode(Head(u.blobs))
        IN  IF ~ text.ok THEN fail(text.err)
            ELSE
            LET json_data == json_loads(text.val)
            IN  IF ~ json_data.ok THEN fail(json_data.err)
                ELSE IF json_data.val.t # "dict" THEN fail("TypeError")
                ELSE
                LET doc == json_data.val.pairs
                IN  IF ~ DictHas(doc, KeyData) \/ ~ DictHas(doc, KeyBlobRefs)
                    THEN fail("KeyError")
                    ELSE
                    LET refs == DictGet(doc, KeyBlobRefs)
                    IN  IF \/ refs.t # "list"
                           \/ \E i \in 1..Len(refs.items) : refs.items[i].t # "str"
                        THEN fail("TypeError")
                        ELSE
                        LET e1 == [e EXCEPT !.blobs =
                                     deserialize_blobs(@, refs.items, Tail(u.blobs))]
                        IN  IF ~ DictHas(doc, KeyObjects)
                            THEN [ok |-> FALSE, err |-> "KeyError",
                                  val |-> JNull, e |-> e1]
                            ELSE [ok |-> TRUE, err |-> "",
                                  val |-> DictGet(doc, KeyData),
                                  e |-> [e1 EXCEPT !._object_specs =
                                                       DictGet(doc, KeyObjects)]]

(***************************************************************************)
(* The array codecs.  A Python value is a record tagged by py:              *)
(*   int       a plain number n                                             *)
(*   scalar    a numpy scalar: item() is n                                  *)
(*   ndarray   dtype, shape, data (the raw bytes), items (tolist(), of an   *)
(*             object array), masked, mask (the bytes of array.mask)        *)
(*   arrow     an Arrow array; ipc is what the IPC stream writer emits      *)
(*   list      a list or tuple of values                                    *)
(*   str       a value no branch of the array codec accepts                 *)
(***************************************************************************)
KeyType == Str(<<"t","y","p","e">>)

KeyValues == Str(<<"v","a","l","u","e","s">>)

KeyShape == Str(<<"s","h","a","p","e">>)

KeyDtype == Str(<<"d","t","y","p","e">>)

KeyMask == Str(<<"m","a","s","k">>)

KeyArrowIpcBlob == Str(<<"a","r","r","o","w","-","i","p","c","-","b","l","o","b">>)

TagNdarray == Str(<<"n","d","a","r","r","a","y">>)

TagArrowArray == Str(<<"a","r","r","o","w","-","a","r","r","a","y">>)

TagJson == Str(<<"j","s","o","n">>)

EncOk(st, out) == [ok |-> TRUE, err |-> "", st |-> st, out |-> out]

EncErr(st, name) == [ok |-> FALSE, err |-> name, st |-> st, out |-> JNull]

\* a numpy dtype: its kind character, its item size in bytes, whether its
\* byte order is the swapped (non-native) one; the unit of a datetime64 is ns
Dtype(kind, itemsize, swapped) ==
    [kind |-> kind, itemsize |-> itemsize, swapped |-> swapped]

Bool == Dtype("b", 1, FALSE)

Int8 == Dtype("i", 1, FALSE)

Int64 == Dtype("i", 8, FALSE)

UInt64 == Dtype("u", 8, FALSE)

Float64 == Dtype("f", 8, FALSE)

Object == Dtype("O", 8, FALSE)

Datetime64 == Dtype("M", 8, FALSE)

\* dtype.newbyteorder(): one-byte items and objects have no byte order
newbyteorder(dtype) ==
    IF dtype.itemsize = 1 \/ dtype.kind = "O" THEN dtype
    ELSE [dtype EXCEPT !.swapped = ~ @]

DatetimeUnit == Str(<<"[","n","s","]">>)

\* str(dtype): the name of a dtype of native order ('float64'), the
\* byte-order code of a swapped one ('>f8')
dtype_str(dtype) ==
    IF dtype.swapped
    THEN <<Ord(">"), Ord(dtype.kind)>> \o IntToStr(dtype.itemsize)
             \o (IF dtype.kind = "M" THEN DatetimeUnit ELSE <<>>)
    ELSE CASE dtype.kind = "b" -> Str(<<"b","o","o","l">>)
           [] dtype.kind = "O" -> Str(<<"o","b","j","e","c","t">>)
           [] dtype.kind = "M" ->
                  Str(<<"d","a","t","e","t","i","m","e","6","4">>) \o DatetimeUnit
           [] dtype.kind = "i" -> Str(<<"i","n","t">>) \o IntToStr(8 * dtype.itemsize)
           [] dtype.kind = "u" ->
                  Str(<<"u","i","n","t">>) \o IntToStr(8 * dtype.itemsize)
           [] dtype.kind = "f" ->
                  Str(<<"f","l","o","a","t">>) \o IntToStr(8 * dtype.itemsize)

\* the numpy dtypes of the model: bool, the integers, float32 and float64,
\* object and datetime64[ns], in both byte orders
NumpyDtypes ==
    {Bool, Object}
    \cup {newbyteorder(Dtype(k, n, b)) :
              k \in {"i", "u"}, n \in {1, 2, 4, 8}, b \in BOOLEAN}
    \cup {Dtype("f", n, b) : n \in {4, 8}, b \in BOOLEAN}
    \cup {Dtype("M", 8, b) : b \in BOOLEAN}

\* np.dtype(name): str(dtype) of a dtype names it; 'float', 'int' and 'uint'
\* name the 8-byte types of a 64-bit Linux build; others are not understood
np_dtype(name) ==
    IF \E d \in NumpyDtypes : dtype_str(d) = name
    THEN [ok |-> TRUE, val |-> CHOOSE d \in NumpyDtypes : dtype_str(d) = name]
    ELSE IF name = Str(<<"f","l","o","a","t">>) THEN [ok |-> TRUE, val |-> Float64]
    ELSE IF name = Str(<<"i","n","t">>) THEN [ok |-> TRUE, val |-> Int64]
    ELSE IF name = Str(<<"u","i","n","t">>) THEN [ok |-> TRUE, val |-> UInt64]
    ELSE Err("TypeError")

\* an arrow type, pa.string() and the like
ArrowType(name) == [kind |-> "arrow", arrow |-> name]

\* dtype_encoding.encode: str(dtype.internal)
dtype_encode(dtype) == JStr(dtype_str(dtype))

\* dtype_encoding.decode
dtype_decode(type_spec) ==
    IF type_spec.t # "str" THEN Err("TypeError")
    ELSE IF type_spec.s = Str(<<"s","t","r","i","n","g">>)
         THEN [ok |-> TRUE, val |-> ArrowType("string")]
    ELSE IF type_spec.s = Str(<<"l","a","r","g","e","_","s","t","r","i","n","g">>)
         THEN [ok |-> TRUE, val |-> ArrowType("large_string")]
    ELSE IF type_spec.s = Str(<<"t","i","m","e","s","t","a","m","p","[","m","s","]">>)
         THEN [ok |-> TRUE, val |-> ArrowType("timestamp[ms]")]
    ELSE np_dtype(type_spec.s)

\* np.ma.isMaskedArray(array)
isMaskedArray(array) == array.masked

\* the mask exported over the values (a mutant of ndarray_mask_key)
ndarray_mask_key_values == KeyValues

\* the key under which ndarray_encoding.encode exports the mask
ndarray_mask_key == KeyMask

\* the blob ndarray_encoding.encode exports for the mask
ndarray_mask_blob(array) == array.mask

ndarray_encode(st, array) ==
    LET has_mask == isMaskedArray(array)
        \* values.view(np.uint64) for kinds m and M keeps the bytes
        kind     == IF array.dtype.kind \in {"m", "M"} THEN "u" ELSE array.dtype.kind
        shape    == JList([i \in 1..Len(array.shape) |-> JInt(array.shape[i])])
        a        == add_blob(st, array.data)
        st1      == IF kind = "O" THEN st ELSE a.st
        values   == IF kind = "O" THEN array.items ELSE JStr(a.ref)
        data     == <<KV(KeyValues, values), KV(KeyShape, shape),
                      KV(KeyDtype, dtype_encode(array.dtype))>>
        m        == add_blob(st1, ndarray_mask_blob(array))
    IN  IF has_mask
        THEN EncOk(m.st, JDict(DictSet(data, ndarray_mask_key, JStr(m.ref))))
        ELSE EncOk(st1, JDict(data))

arrow_array_encode(st, array) ==
    LET a == add_blob(st, array.ipc)
    IN  EncOk(a.st, JDict(<<KV(KeyArrowIpcBlob, JStr(a.ref))>>))

Wrap(type, r) ==
    IF r.ok THEN EncOk(r.st, JDict(<<KV(KeyType, JStr(type)), KV(KeyData, r.out)>>))
    ELSE r

array_encode(st, result) ==
    CASE result.py = "ndarray" -> Wrap(TagNdarray, ndarray_encode(st, result))
      [] result.py = "arrow"   -> Wrap(TagArrowArray, arrow_array_encode(st, result))
      [] result.py \in {"int", "scalar"} -> Wrap(TagJson, EncOk(st, JInt(result.n)))
      [] OTHER -> EncErr(st, "ValueError")

RECURSIVE evaluate_results_encode(_, _), EncodeEach(_, _, _)
\* vaex_evaluate_results_encoding.encode; vaex-task-result is an alias of it
evaluate_results_encode(st, result) ==
    IF result.py = "list" THEN EncodeEach(st, result.items, <<>>)
    ELSE array_encode(st, result)

\* [cls.encode(encoding, k) for k in result]: an exception ends the loop and
\* leaves the blobs added so far in the session
EncodeEach(st, items, acc) ==
    IF items = <<>> THEN EncOk(st, JList(acc))
    ELSE LET r == evaluate_results_encode(st, Head(items))
         IN  IF r.ok THEN EncodeEach(r.st, Tail(items), Append(acc, r.out))
             ELSE r

\* Encoding.encode(typename, value) for the array codecs
encode(st, typename, value) ==
    CASE typename \in {"vaex-evaluate-result", "vaex-task-result"}
             -> evaluate_results_encode(st, value)
      [] typename = "array"   -> array_encode(st, value)
      [] typename = "ndarray" -> ndarray_encode(st, value)

RECURSIVE BlobLeaves(_)
\* the blob references of an EncodedForm, in document order
BlobLeaves(j) ==
    CASE j.t = "str"  -> IF StartsWith(j.s, BlobPrefix) THEN <<j.s>> ELSE <<>>
      [] j.t = "list" -> Concat([i \in 1..Len(j.items) |-> BlobLeaves(j.items[i])])
      [] j.t = "dict" -> Concat([i \in 1..Len(j.pairs) |-> BlobLeaves(j.pairs[i].v)])
      [] OTHER -> <<>>

(***************************************************************************)
(* The decoders of the array codecs, and the scalar, ordered-set, function  *)
(* and variable codecs.  A decoder returns [ok |-> TRUE, val |-> value] or  *)
(* the exception it raised.  Python values other than JSON-safe ones carry  *)
(* their class in py; a JSON-safe value is its JSON tree.                   *)
(***************************************************************************)
Ok(val) == [ok |-> TRUE, val |-> val]

\* np.frombuffer(data, dtype = dtype): an array of one dimension over the
\* bytes of data, here the number of its items
frombuffer(data, dtype) ==
    IF Len(data) % dtype.itemsize # 0 THEN Err("ValueError")
    ELSE Ok(Len(data) \div dtype.itemsize)

RECURSIVE Product(_)
Product(ns) == IF ns = <<>> THEN 1 ELSE Head(ns) * Product(Tail(ns))

\* shape as a tuple of ints, from its encoded list
ShapeOf(shape) == [i \in 1..Len(shape.items) |-> shape.items[i].n]

\* ndarray_encoding.decode for one encoded array
ndarray_decode_one(e, result_encoded) ==
    LET enc   == result_encoded.pairs
        dtype == dtype_decode(DictGet(enc, KeyDtype))
        shape == ShapeOf(DictGet(enc, KeyShape))
        blob  == get_blob(e, DictGet(enc, KeyValues).s)
        items == frombuffer(blob.val, dtype.val)
        array == IF dtype.val.kind = "O"
                 THEN Ok([py |-> "ndarray", dtype |-> dtype.val,
                          shape |-> <<Len(DictGet(enc, KeyValues).items)>>,
                          data |-> <<>>, items |-> DictGet(enc, KeyValues),
                          masked |-> FALSE, mask |-> <<>>])
                 ELSE IF ~ blob.ok THEN blob
                 ELSE IF ~ items.ok THEN items
                 \* .reshape(shape)
                 ELSE IF items.val # Product(shape) THEN Err("ValueError")
                 ELSE Ok([py |-> "ndarray", dtype |-> dtype.val, shape |-> shape,
                          data |-> blob.val, items |-> JList(<<>>),
                          masked |-> FALSE, mask |-> <<>>])
        mask_data == get_blob(e, DictGet(enc, KeyMask).s)
    IN  IF ~ dtype.ok THEN dtype
        ELSE IF ~ array.ok THEN array
        ELSE IF ~ DictHas(enc, KeyMask) THEN array
        ELSE IF ~ mask_data.ok THEN mask_data
        \* np.frombuffer(mask_data, dtype = np.bool_).reshape(shape)
        ELSE IF Len(mask_data.val) # Product(shape) THEN Err("ValueError")
        ELSE Ok([array.val EXCEPT !.masked = TRUE, !.mask = mask_data.val])

\* a list comprehension over decoded values: the first exception ends it
ListOf(r, rest) ==
    IF ~ r.ok THEN r
    ELSE IF ~ rest.ok THEN rest
    ELSE Ok([py |-> "list", items |-> <<r.val>> \o rest.val.items])

RECURSIVE ndarray_decode(_, _), NdarrayDecodeEach(_, _)
\* ndarray_encoding.decode
ndarray_decode(e, result_encoded) ==
    IF result_encoded.t = "list"
    THEN NdarrayDecodeEach(e, result_encoded.items)
    ELSE ndarray_decode_one(e, result_encoded)

\* [cls.decode(encoding, k) for k in result_encoded]
NdarrayDecodeEach(e, items) ==
    IF items = <<>> THEN Ok([py |-> "list", items |-> <<>>])
    ELSE ListOf(ndarray_decode(e, Head(items)), NdarrayDecodeEach(e, Tail(items)))

KeyArrowSerializedBlob ==
    Str(<<"a","r","r","o","w","-","s","e","r","i","a","l","i","z","e","d","-","b","l","o","b">>)

\* arrow_array_encoding.decode, of a stream written by its encode: the array
\* read back is the one whose stream the blob holds
arrow_array_decode(e, result_encoded) ==
    LET old  == get_blob(e, DictGet(result_encoded.pairs, KeyArrowSerializedBlob).s)
        blob == get_blob(e, DictGet(result_encoded.pairs, KeyArrowIpcBlob).s)
    IN  IF DictHas(result_encoded.pairs, KeyArrowSerializedBlob)
        \* backward compatibility: pa.deserialize(blob)
        THEN (IF ~ old.ok THEN old ELSE Ok([py |-> "arrow", serialized |-> old.val]))
        ELSE IF ~ DictHas(result_encoded.pairs, KeyArrowIpcBlob) THEN Err("KeyError")
        ELSE IF ~ blob.ok THEN blob
        ELSE Ok([py |-> "arrow", ipc |-> blob.val])

KeyValue == Str(<<"v","a","l","u","e">>)

TagNumpyScalar == Str(<<"n","u","m","p","y","-","s","c","a","l","a","r">>)

\* scalar.item(), and int(scalar.astype(int)) for the time kinds
numpy_scalar_item(scalar) ==
    IF scalar.dtype.kind \in {"m", "M"} THEN JInt(scalar.n)
    ELSE IF scalar.dtype.kind = "b" THEN JBool(scalar.n # 0)
    ELSE JInt(scalar.n)

\* numpy_scalar_encoding.encode
numpy_scalar_encode(st, scalar) ==
    EncOk(st, JDict(<<KV(KeyValue, numpy_scalar_item(scalar)),
                      KV(KeyDtype, dtype_encode(scalar.dtype))>>))

\* numpy_scalar_encoding.decode: np.array([value], dtype = dtype.numpy)[0]
numpy_scalar_decode(e, scalar_spec) ==
    LET dtype == dtype_decode(DictGet(scalar_spec.pairs, KeyDtype))
        value == DictGet(scalar_spec.pairs, KeyValue)
    IN  IF ~ dtype.ok THEN dtype
        ELSE Ok([py |-> "numpy-scalar", dtype |-> dtype.val,
                 n |-> IF value.t = "bool" THEN (IF value.b THEN 1 ELSE 0)
                       ELSE value.n])

KeyClass == Str(<<"c","l","a","s","s">>)

KeyCount == Str(<<"c","o","u","n","t">>)

KeyNanCount == Str(<<"n","a","n","_","c","o","u","n","t">>)

KeyMissingCount ==
    Str(<<"m","i","s","s","i","n","g","_","c","o","u","n","t">>)

TagOrderedSet == Str(<<"o","r","d","e","r","e","d","-","s","e","t">>)

\* the classes of vaex.hash the model knows
HashClasses ==
    {Str(<<"o","r","d","e","r","e","d","_","s","e","t","_","i","n","t","6","4">>),
     Str(<<"o","r","d","e","r","e","d","_","s","e","t","_","b","o","o","l">>)}

\* ordered_set_encoding.encode; obj.items is obj.extract(), a dict
ordered_set_encode(st, obj) ==
    LET values == JList([i \in 1..Len(obj.items) |->
                            JList(<<obj.items[i].k, obj.items[i].v>>)])
    IN  EncOk(st, JDict(<<KV(KeyClass, JStr(obj.cls)),
                          KV(KeyData, JDict(<<KV(KeyValues, values),
                                              KV(KeyCount, JInt(obj.count)),
                                              KV(KeyNanCount, JInt(obj.nan_count)),
                                              KV(KeyMissingCount, JInt(obj.null_count))>>))>>))

RECURSIVE DictOf(_, _)
\* dict(values) for a list of (key, value) pairs
DictOf(values, acc) ==
    IF values = <<>> THEN acc
    ELSE DictOf(Tail(values),
                DictSet(acc, Head(values).items[1], Head(values).items[2]))

\* ordered_set_encoding.decode
ordered_set_decode(e, obj_spec) ==
    LET clsname == DictGet(obj_spec.pairs, KeyClass).s
        data    == DictGet(obj_spec.pairs, KeyData).pairs
    IN  IF clsname \notin HashClasses THEN Err("AttributeError")
        ELSE Ok([py |-> "ordered-set", cls |-> clsname,
                 items |-> DictOf(DictGet(data, KeyValues).items, <<>>),
                 count |-> DictGet(data, KeyCount).n,
                 nan_count |-> DictGet(data, KeyNanCount).n,
                 null_count |-> DictGet(data, KeyMissingCount).n])

\* the default of trusted read as True (a mutant of trusted_default)
trusted_default_true == TRUE

\* def decode(encoding, function_spec, trusted=False): the default of trusted
trusted_default == FALSE

\* vaex.serialize.from_dict(function_spec, trusted = trusted): the facility
\* is outside this module; its result stands for the call it was given
from_dict(function_spec, trusted) ==
    [py |-> "function", spec |-> function_spec, trusted |-> trusted]

\* function_encoding.decode(encoding, function_spec, trusted)
function_decode(e, function_spec, trusted) ==
    IF function_spec = JNull THEN Ok(JNull)
    ELSE Ok(from_dict(function_spec, trusted))

KwTrusted == "trusted"

\* function_encoding.decode(encoding, function_spec, **kwargs): a keyword
\* that is no parameter is a TypeError, a missing trusted takes the default
function_decode_kwargs(e, function_spec, kwargs) ==
    IF \E i \in 1..Len(kwargs) : kwargs[i].k # KwTrusted THEN Err("TypeError")
    ELSE function_decode(e, function_spec,
                         IF DictHas(kwargs, KwTrusted)
                         THEN DictGet(kwargs, KwTrusted)
                         ELSE trusted_default)

\* self.registry[typename].decode(self, value, **kwargs) for the codecs
\* other than variable: only function_encoding.decode takes keywords
registry_decode(e, typename, value, kwargs) ==
    IF typename = "function" THEN function_decode_kwargs(e, value, kwargs)
    ELSE IF kwargs # <<>> THEN Err("TypeError")
    ELSE CASE typename = "ndarray"      -> ndarray_decode(e, value)
           [] typename = "arrow-array"  -> arrow_array_decode(e, value)
           [] typename = "numpy-scalar" -> numpy_scalar_decode(e, value)
           [] typename = "ordered-set"  -> ordered_set_decode(e, value)
           [] typename = "dtype"        -> dtype_decode(value)
           [] OTHER                     -> Err("KeyError")

\* isinstance(obj, cls) for the classes the variable codec tests; the numpy
\* scalar classes derive from np.generic
ClassOf(obj) == IF "py" \in DOMAIN obj THEN obj.py ELSE obj.t

isinstance(obj, cls) ==
    CASE cls = "np.ndarray"  -> ClassOf(obj) = "ndarray"
      [] cls = "arrow"       -> ClassOf(obj) = "arrow"
      [] cls = "ordered_set" -> ClassOf(obj) = "ordered-set"
      [] cls = "np.generic"  -> ClassOf(obj) = "numpy-scalar"
      [] cls = "np.integer"  ->
             ClassOf(obj) = "numpy-scalar" /\ obj.dtype.kind \in {"i", "u"}
      [] cls = "np.floating" -> ClassOf(obj) = "numpy-scalar" /\ obj.dtype.kind = "f"
      [] cls = "np.bytes_"   -> ClassOf(obj) = "numpy-scalar" /\ obj.dtype.kind = "S"
      [] cls = "bytes"       -> ClassOf(obj) = "bytes"
      [] cls = "dict"        -> ClassOf(obj) = "dict"

\* str(obj, encoding = 'utf-8')
str_of_bytes(obj) ==
    LET text == utf8_decode(obj.data)
    IN  IF text.ok THEN Ok(JStr(text.val)) ELSE text

\* selection_encoding.encode, registered as "variable"
variable_encode(st, obj) ==
    IF isinstance(obj, "np.ndarray") THEN Wrap(TagNdarray, ndarray_encode(st, obj))
    ELSE IF isinstance(obj, "arrow")
         THEN Wrap(TagArrowArray, arrow_array_encode(st, obj))
    ELSE IF isinstance(obj, "ordered_set")
         THEN Wrap(TagOrderedSet, ordered_set_encode(st, obj))
    ELSE IF isinstance(obj, "np.generic")
         THEN Wrap(TagNumpyScalar, numpy_scalar_encode(st, obj))
    ELSE IF isinstance(obj, "np.integer") THEN EncOk(st, numpy_scalar_item(obj))
    ELSE IF isinstance(obj, "np.floating") THEN EncOk(st, numpy_scalar_item(obj))
    ELSE IF isinstance(obj, "np.ndarray") THEN EncOk(st, obj.items)
    ELSE IF isinstance(obj, "np.bytes_") THEN EncOk(st, JStr(obj.data))
    ELSE IF isinstance(obj, "bytes")
         THEN LET text == str_of_bytes(obj)
              IN  IF text.ok THEN EncOk(st, text.val) ELSE EncErr(st, text.err)
    ELSE EncOk(st, obj)

\* the typename a tag names in the registry
Typename(tag) ==
    CASE tag = TagNdarray     -> "ndarray"
      [] tag = TagArrowArray  -> "arrow-array"
      [] tag = TagOrderedSet  -> "ordered-set"
      [] tag = TagNumpyScalar -> "numpy-scalar"
      [] OTHER                -> "unknown"

\* selection_encoding.decode, registered as "variable"
variable_decode(e, obj_spec) ==
    IF isinstance(obj_spec, "dict")
    THEN IF ~ DictHas(obj_spec.pairs, KeyType) \/ ~ DictHas(obj_spec.pairs, KeyData)
         THEN Err("KeyError")
         ELSE registry_decode(e, Typename(DictGet(obj_spec.pairs, KeyType).s),
                              DictGet(obj_spec.pairs, KeyData), <<>>)
    ELSE Ok(obj_spec)

\* Encoding.decode(typename, value, **kwargs)
decode(e, typename, value, kwargs) ==
    IF typename = "variable"
    THEN (IF kwargs # <<>> THEN Err("TypeError") ELSE variable_decode(e, value))
    ELSE registry_decode(e, typename, value, kwargs)

\* a comprehension over decoded values: the first exception ends it
Comprehend(r, rest) ==
    IF ~ r.ok THEN r
    ELSE IF ~ rest.ok THEN rest
    ELSE Ok(<<r.val>> \o rest.val)

RECURSIVE decode_list(_, _, _, _)
\* Encoding.decode_list(typename, values, **kwargs)
decode_list(e, typename, values, kwargs) ==
    IF values = <<>> THEN Ok(<<>>)
    ELSE Comprehend(decode(e, typename, Head(values), kwargs),
                    decode_list(e, typename, Tail(values), kwargs))

\* {key: decoded value for key, value in values.items()}
Keyed(values, decoded) ==
    IF ~ decoded.ok THEN decoded
    ELSE Ok([i \in 1..Len(values) |-> KV(values[i].k, decoded.val[i])])

\* Encoding.decode_dict(typename, values, **kwargs)
decode_dict(e, typename, values, kwargs) ==
    Keyed(values, decode_list(e, typename,
                              [i \in 1..Len(values) |-> values[i].v], kwargs))

(***************************************************************************)
(* The state                                                                *)
(***************************************************************************)
VARIABLES
    S,       \* the session of the encoding side
    S2,      \* the session of the decoding side
    uuid,    \* how many ids the uuid generator has given out
    calls,   \* the add_blob calls made on S: the reference returned, the bytes passed
    buffer,  \* the caller's own buffer, which it passes to add_blob and may overwrite
    wire,    \* the packed buffer in flight
    sent,    \* what was handed to the call that packed it
    ret,     \* the last call: its name, its arguments, what it returned or raised
    call     \* the arguments of a codec call about to be made

vars == <<S, S2, uuid, calls, buffer, wire, sent, ret, call>>

NoWire == [kind |-> "none", bytes |-> <<>>, count |-> 0, corrupt |-> -1]

\* a buffer freshly packed from count blobs
Wire(kind, bytes, count) ==
    [kind |-> kind, bytes |-> bytes, count |-> count, corrupt |-> -1]

NoSent == [data |-> JNull, arg |-> JNull]

NoCall == [codec |-> "none"]

Ret(op, arg, ok, err, out) ==
    [op |-> op, arg |-> arg, ok |-> ok, err |-> err, out |-> out]

NoRet == Ret("none", JNull, TRUE, "", JNull)

Running == [e |-> S, uuid |-> uuid, calls |-> calls]

(***************************************************************************)
(* Bounds and input sets                                                    *)
(***************************************************************************)
\* the most blobs a session of the model holds
MaxBlobs == 3

\* the contents a caller's buffer takes
BlobData == {<<>>, <<32, 7>>}

PyInt(n) == [py |-> "int", n |-> n]

PyList(items) == [py |-> "list", items |-> items]

PyStr(s) == [py |-> "str", s |-> s]

\* np.array(...) of one dimension: an object array holds items and no
\* bytes, an array of another dtype is its bytes
NdArray(dtype, data, items) ==
    [py |-> "ndarray", dtype |-> dtype,
     shape |-> <<IF dtype.kind = "O" THEN Len(items)
                 ELSE Len(data) \div dtype.itemsize>>,
     data |-> data,
     items |-> JList([i \in 1..Len(items) |-> JInt(items[i])]),
     masked |-> FALSE, mask |-> <<>>]

\* np.ma.array(array, mask = mask)
MaskedArray(array, mask) == [array EXCEPT !.masked = TRUE, !.mask = mask]

DenseInt8 == NdArray(Int8, <<1, 2>>, <<>>)

DenseTime == NdArray(Datetime64, <<5, 0, 0, 0, 0, 0, 0, 0>>, <<>>)

DenseObject == NdArray(Object, <<>>, <<4, 5>>)

MaskedInt8 == MaskedArray(DenseInt8, <<0, 1>>)

\* a masked array without a mask of its own: array.mask is np.ma.nomask
NoMaskInt8 == MaskedArray(DenseInt8, <<0>>)

MaskedObject == MaskedArray(DenseObject, <<1, 0>>)

\* the values handed to the evaluate-result, array and ndarray codecs
EvalValues ==
    {PyInt(3), DenseInt8, DenseTime, DenseObject,
     MaskedInt8, NoMaskInt8, MaskedObject,
     PyList(<<DenseInt8, MaskedInt8>>),
     PyList(<<PyList(<<PyInt(3)>>), PyList(<<MaskedInt8>>)>>),
     PyStr(<<>>), PyList(<<DenseInt8, PyStr(<<>>)>>)}

ArrayTypenames == {"vaex-evaluate-result", "array", "ndarray"}

(***************************************************************************)
(* The blob store and the array codecs in use: specification Spec           *)
(***************************************************************************)
Init ==
    /\ S = Encoding__init
    /\ S2 = Encoding__init
    /\ uuid = 0
    /\ calls = <<>>
    /\ buffer \in BlobData
    /\ wire = NoWire
    /\ sent = NoSent
    /\ ret = NoRet
    /\ call = NoCall

\* the caller overwrites its buffer
MutateBuffer(data) ==
    /\ wire.kind = "none"
    /\ data # buffer
    /\ buffer' = data
    /\ UNCHANGED <<S, S2, uuid, calls, wire, sent, ret, call>>

\* encoding.add_blob(buffer)
AddBlob ==
    /\ wire.kind = "none"
    /\ Len(S.blobs) < MaxBlobs
    /\ LET r == add_blob(Running, buffer)
       IN  /\ S' = r.st.e
           /\ uuid' = r.st.uuid
           /\ calls' = r.st.calls
           /\ ret' = Ret("add_blob", JNull, TRUE, "", JStr(r.ref))
    /\ UNCHANGED <<S2, buffer, wire, sent, call>>

\* encoding.encode(typename, value) with one of the array codecs (the
\* ndarray codec is handed arrays only)
Encode(typename, value) ==
    /\ wire.kind = "none"
    /\ typename = "ndarray" => value.py = "ndarray"
    /\ LET r == encode(Running, typename, value)
       IN  /\ Len(r.st.e.blobs) <= MaxBlobs
           /\ S' = r.st.e
           /\ uuid' = r.st.uuid
           /\ calls' = r.st.calls
           /\ ret' = Ret("encode", value, r.ok, r.err, r.out)
    /\ UNCHANGED <<S2, buffer, wire, sent, call>>

\* binary.serialize(data, S) of the EncodedForm the last encode returned
Serialize ==
    /\ wire.kind = "none"
    /\ ret.op = "encode" /\ ret.ok
    /\ LET r == binary_serialize(ret.out, S)
       IN  /\ wire' = IF r.ok
                      THEN Wire("envelope", r.bytes, 1 + Len(S.blobs))
                      ELSE wire
           /\ sent' = [data |-> ret.out, arg |-> ret.arg]
           /\ ret' = Ret("serialize", ret.arg, r.ok, IF r.ok THEN "" ELSE r.err, JNull)
    /\ UNCHANGED <<S, S2, uuid, calls, buffer, call>>

\* binary.deserialize(wire, S2)
Deserialize ==
    /\ wire.kind = "envelope"
    /\ LET r == binary_deserialize(wire.bytes, S2)
       IN  /\ S2' = r.e
           /\ ret' = Ret("deserialize", sent.arg, r.ok, r.err, r.val)
    /\ wire' = [wire EXCEPT !.kind = "received"]
    /\ UNCHANGED <<S, uuid, calls, buffer, sent, call>>

Next ==
    \/ \E data \in BlobData : MutateBuffer(data)
    \/ AddBlob
    \/ \E typename \in ArrayTypenames, value \in EvalValues : Encode(typename, value)
    \/ Serialize
    \/ Deserialize

Spec == Init /\ [][Next]_vars

(***************************************************************************)
(* Claims about the blob store and the array codecs, under Spec             *)
(***************************************************************************)
\* the id a reference names
RefId(ref) == Slice(ref, Len(BlobPrefix), Len(ref))

\* C5: blob ids are unique per session and nothing is deduplicated by
\* content: the references add_blob returned are pairwise different, the
\* store holds one entry per call, in call order, under the call's own id
\* and with the bytes passed to that call, and get_blob on each reference
\* returns those bytes whatever the caller's buffer holds now.
C5_BlobIdsUnique ==
    /\ \A i, j \in 1..Len(calls) : i # j => calls[i].ref # calls[j].ref
    /\ Len(S.blobs) = Len(calls)
    /\ \A i \in 1..Len(calls) :
          /\ S.blobs[i] = KV(RefId(calls[i].ref), calls[i].bytes)
          /\ get_blob(S, calls[i].ref) = [ok |-> TRUE, val |-> calls[i].bytes]

\* two add_blob calls passed the same bytes, and the caller has overwritten
\* its buffer since
C5_Witness ==
    /\ ret.op = "add_blob"
    /\ Len(calls) = 2
    /\ calls[1].bytes = <<32, 7>>
    /\ calls[2].bytes = <<32, 7>>
    /\ buffer = <<>>

\* the EncodedForm of one array, with or without the {type, data} wrapper
ArrayForm(out) ==
    IF DictHas(out.pairs, KeyType) THEN DictGet(out.pairs, KeyData) ELSE out

RECURSIVE Conforms(_, _)
\* the references an encoded value holds are those its kind calls for
Conforms(value, out) ==
    CASE value.py = "list" ->
            /\ out.t = "list"
            /\ Len(out.items) = Len(value.items)
            /\ \A i \in 1..Len(value.items) : Conforms(value.items[i], out.items[i])
      [] value.py = "ndarray" ->
            LET d      == ArrayForm(out).pairs
                leaves == BlobLeaves(out)
            IN  /\ DictHas(d, KeyMask) <=> value.masked
                /\ value.dtype.kind # "O" /\ ~ value.masked =>
                      leaves = <<DictGet(d, KeyValues).s>>
                /\ value.dtype.kind # "O" /\ value.masked =>
                      /\ leaves = <<DictGet(d, KeyValues).s, DictGet(d, KeyMask).s>>
                      /\ leaves[1] # leaves[2]
      [] OTHER -> BlobLeaves(out) = <<>>

\* C6: no dangling blob references.  After a successful encode every blob
\* reference of the returned EncodedForm was returned by exactly one
\* add_blob call of the session and resolves to the bytes of that call; a
\* dense numeric array holds one reference (values), a masked one two
\* different ones (values, mask), and the mask key is there exactly for
\* masked arrays.  After serialize and deserialize into a fresh session the
\* same references resolve there to the same bytes.
C6_NoDanglingReferences ==
    /\ ret.op = "encode" /\ ret.ok =>
          /\ Conforms(ret.arg, ret.out)
          /\ \A k \in 1..Len(BlobLeaves(ret.out)) :
                LET leaf == BlobLeaves(ret.out)[k]
                    made == {i \in 1..Len(calls) : calls[i].ref = leaf}
                IN  /\ Cardinality(made) = 1
                    /\ \A i \in made :
                          get_blob(S, leaf) = [ok |-> TRUE, val |-> calls[i].bytes]
    /\ ret.op = "deserialize" =>
          /\ ret.ok
          /\ ret.out = sent.data
          /\ \A k \in 1..Len(BlobLeaves(sent.data)) :
                LET leaf == BlobLeaves(sent.data)[k]
                IN  /\ get_blob(S2, leaf).ok
                    /\ get_blob(S2, leaf) = get_blob(S, leaf)

\* a list of a dense and a masked array was encoded, sent and received
C6_Witness ==
    /\ ret.op = "deserialize"
    /\ ret.arg = PyList(<<DenseInt8, MaskedInt8>>)
    /\ Len(BlobLeaves(ret.out)) = 3
    /\ Len(S2.blobs) = 3

(***************************************************************************)
(* The object-spec table and the object table: specification SpecObjects    *)
(***************************************************************************)
ObjectIds == {Str(<<"x">>), Str(<<"y">>)}

ObjectSpecs == {JInt(1), JInt(2)}

Objects == {PyInt(1), PyInt(2)}

Sessions == {"S", "S2"}

InitObjects ==
    /\ S = Encoding__init
    /\ S2 = Encoding__init
    /\ uuid = 0
    /\ calls = <<>>
    /\ buffer = <<>>
    /\ wire = NoWire
    /\ sent = NoSent
    /\ ret = NoRet
    /\ call = NoCall

\* encoding.set_object_spec(id, obj) on either session; the encoding side
\* is done once its envelope is on the wire
SetObjectSpec(which, id, obj) ==
    /\ which = "S" => wire.kind = "none"
    /\ LET r == set_object_spec(IF which = "S" THEN S ELSE S2, id, obj)
       IN  /\ S' = IF which = "S" THEN r.e ELSE S
           /\ S2' = IF which = "S2" THEN r.e ELSE S2
           /\ ret' = Ret("set_object_spec", [which |-> which, id |-> id, obj |-> obj],
                         r.ok, r.err, JNull)
    /\ UNCHANGED <<uuid, calls, buffer, wire, sent, call>>

\* encoding.set_object(id, obj) on the decoding side, whose object table is
\* filled while a received envelope is decoded
SetObject(id, obj) ==
    /\ wire.kind = "received"
    /\ LET r == set_object(S2, id, obj)
       IN  /\ S2' = r.e
           /\ ret' = Ret("set_object", [which |-> "S2", id |-> id, obj |-> obj],
                         r.ok, r.err, JNull)
    /\ UNCHANGED <<S, uuid, calls, buffer, wire, sent, call>>

\* binary.serialize(None, S)
SerializeObjects ==
    /\ wire.kind = "none"
    /\ LET r == binary_serialize(JNull, S)
       IN  /\ wire' = IF r.ok
                      THEN Wire("envelope", r.bytes, 1 + Len(S.blobs))
                      ELSE wire
           /\ ret' = Ret("serialize", JNull, r.ok, IF r.ok THEN "" ELSE r.err, JNull)
    /\ sent' = NoSent
    /\ UNCHANGED <<S, S2, uuid, calls, buffer, call>>

NextObjects ==
    \/ \E which \in Sessions, id \in ObjectIds, obj \in ObjectSpecs :
          SetObjectSpec(which, id, obj)
    \/ \E id \in ObjectIds, obj \in Objects : SetObject(id, obj)
    \/ SerializeObjects
    \/ Deserialize

SpecObjects == InitObjects /\ [][NextObjects]_vars

(***************************************************************************)
(* Claims about the object tables, under SpecObjects                        *)
(***************************************************************************)
\* C7: object-spec ids are write-once.  A set_object_spec call whose id is
\* in the session's table, stored by an earlier call or restored by
\* binary.deserialize, fails and leaves the table as it was; a call with an
\* absent id appends that one entry and changes no other; no call touches
\* the other session.  set_object obeys the same rule on the object table,
\* which has_object and get_object read.
C7_ObjectSpecWriteOnce ==
    [][ /\ ret'.op = "set_object_spec" =>
              LET id  == ret'.arg.id
                  old == IF ret'.arg.which = "S" THEN S ELSE S2
                  new == IF ret'.arg.which = "S" THEN S' ELSE S2'
              IN  /\ ret'.arg.which = "S" => S2' = S2
                  /\ ret'.arg.which = "S2" => S' = S
                  /\ new.blobs = old.blobs /\ new._objects = old._objects
                  /\ IF has_object_spec(old, id)
                     THEN /\ ~ ret'.ok
                          /\ new = old
                          /\ get_object_spec(new, id) = get_object_spec(old, id)
                     ELSE /\ ret'.ok
                          /\ new._object_specs.pairs =
                                Append(old._object_specs.pairs, KV(id, ret'.arg.obj))
                          /\ get_object_spec(new, id) = [ok |-> TRUE, val |-> ret'.arg.obj]
        /\ ret'.op = "set_object" =>
              LET id == ret'.arg.id
              IN  /\ S' = S
                  /\ S2'.blobs = S2.blobs /\ S2'._object_specs = S2._object_specs
                  /\ IF has_object(S2, id)
                     THEN /\ ~ ret'.ok
                          /\ S2' = S2
                     ELSE /\ ret'.ok
                          /\ S2'._objects = Append(S2._objects, KV(id, ret'.arg.obj))
                          /\ get_object(S2', id) = [ok |-> TRUE, val |-> ret'.arg.obj]
      ]_vars

\* a set_object_spec on the decoding side was refused for an id that the
\* envelope restored, with a different spec than the one restored
C7_Witness ==
    /\ wire.kind = "received"
    /\ ret.op = "set_object_spec"
    /\ ret.arg.which = "S2"
    /\ ~ ret.ok
    /\ has_object_spec(S, ret.arg.id)
    /\ S2._object_specs = S._object_specs
    /\ get_object_spec(S2, ret.arg.id).val # ret.arg.obj
    /\ S2._objects # <<>>

(***************************************************************************)
(* The binary envelope on its own: specification SpecWire.  The initial     *)
(* states are the inputs: either a list of blobs for _pack_blobs, or an     *)
(* encoding session (built by add_blob and set_object_spec calls) to        *)
(* serialize and a decoding session with contents of its own.               *)
(***************************************************************************)
\* the most blobs a session of SpecWire holds
MaxWireBlobs == 2

BlobLists(n) == UNION {[1..k -> BlobData] : k \in 0..n}

\* Scenario C: three blobs of lengths 5, 0 and 7
ScenarioC == <<<<104, 101, 108, 108, 111>>, <<>>, <<1, 2, 3, 4, 5, 6, 7>>>>

RawLists == BlobLists(MaxWireBlobs) \cup {ScenarioC}

IdX == Str(<<"x">>)

IdY == Str(<<"y">>)

\* the object specs stored, in order, by set_object_spec
SpecTables ==
    {<<>>, <<KV(IdX, JInt(1))>>,
     <<KV(IdY, JList(<<JInt(2)>>)), KV(IdX, JDict(<<KV(IdY, JNull)>>))>>}

\* what the decoding session holds beforehand: blobs and object specs
PriorContents ==
    {[blobs |-> <<>>, specs |-> <<>>],
     [blobs |-> <<<<9>>>>, specs |-> <<KV(IdX, JInt(7))>>]}

\* the root EncodedForms handed to binary.serialize
DataForms ==
    {JNull,
     JList(<<JInt(-12), JStr(blob_ref(Uuid(0)))>>),
     JDict(<<KV(KeyValues, JStr(blob_ref(Uuid(1)))), KV(KeyShape, JList(<<JInt(2)>>))>>)}

RECURSIVE AddBlobs(_, _)
\* add_blob called with each buffer of the list in turn
AddBlobs(st, buffers) ==
    IF buffers = <<>> THEN st
    ELSE AddBlobs(add_blob(st, Head(buffers)).st, Tail(buffers))

RECURSIVE SetSpecs(_, _)
\* set_object_spec called with each pair of the list in turn
SetSpecs(e, pairs) ==
    IF pairs = <<>> THEN e
    ELSE SetSpecs(set_object_spec(e, Head(pairs).k, Head(pairs).v).e, Tail(pairs))

InitWire ==
    /\ buffer = <<>>
    /\ wire = NoWire
    /\ sent = NoSent
    /\ ret = NoRet
    /\ \/ \E blobs \in BlobLists(MaxWireBlobs), specs \in SpecTables,
             prior \in PriorContents :
             LET st1 == AddBlobs([e |-> Encoding__init, uuid |-> 0, calls |-> <<>>],
                                 blobs)
                 st2 == AddBlobs([e |-> Encoding__init, uuid |-> st1.uuid,
                                  calls |-> <<>>], prior.blobs)
             IN  /\ S = SetSpecs(st1.e, specs)
                 /\ S2 = SetSpecs(st2.e, prior.specs)
                 /\ uuid = st2.uuid
                 /\ calls = st1.calls
                 /\ call = [codec |-> "serialize", blobs |-> <<>>,
                            prior |-> SetSpecs(st2.e, prior.specs)]
       \/ \E blobs \in RawLists :
             /\ S = Encoding__init
             /\ S2 = Encoding__init
             /\ uuid = 0
             /\ calls = <<>>
             /\ call = [codec |-> "pack", blobs |-> blobs, prior |-> Encoding__init]

\* _pack_blobs(*blobs)
PackRaw ==
    /\ call.codec = "pack"
    /\ wire.kind = "none"
    /\ LET r == _pack_blobs(call.blobs)
       IN  /\ wire' = IF r.ok THEN Wire("packed", r.bytes, Len(call.blobs)) ELSE wire
           /\ ret' = Ret("pack", JNull, r.ok, IF r.ok THEN "" ELSE r.err, JNull)
    /\ UNCHANGED <<S, S2, uuid, calls, buffer, sent, call>>

\* binary.serialize(data, S)
SerializeData(data) ==
    /\ call.codec = "serialize"
    /\ wire.kind = "none"
    /\ LET r == binary_serialize(data, S)
       IN  /\ wire' = IF r.ok THEN Wire("envelope", r.bytes, 1 + Len(S.blobs)) ELSE wire
           /\ ret' = Ret("serialize", JNull, r.ok, IF r.ok THEN "" ELSE r.err, JNull)
    /\ sent' = [data |-> data, arg |-> JNull]
    /\ UNCHANGED <<S, S2, uuid, calls, buffer, call>>

\* the header word that holds offset[i], i in 0..count
OffsetWord(bytes, i) ==
    SubSeq(bytes, WordSize * (i + 1) + 1, WordSize * (i + 2))

\* the values a corrupted offset takes, given its value and the buffer's length
CorruptValues(offset, length) ==
    {offset - 1, offset + 1, offset - length, 0, length} \ {offset}

\* one offset of the header, offset[i], is overwritten in flight by
\* another value
Corrupt ==
    /\ wire.kind \in {"packed", "envelope"}
    /\ wire.corrupt = -1
    /\ \E i \in 0..wire.count :
          \E v \in CorruptValues(Unpack64(OffsetWord(wire.bytes, i)), Len(wire.bytes)) :
             wire' = [wire EXCEPT
                        !.corrupt = i,
                        !.bytes = SubSeq(@, 1, WordSize * (i + 1)) \o Pack64(v)
                                      \o SubSeq(@, WordSize * (i + 2) + 1, Len(@))]
    /\ UNCHANGED <<S, S2, uuid, calls, buffer, sent, ret, call>>

\* _unpack_blobs(wire)
Unpack ==
    /\ wire.kind \in {"packed", "envelope"}
    /\ LET r == _unpack_blobs(wire.bytes)
       IN  ret' = Ret("unpack", JNull, r.ok, IF r.ok THEN "" ELSE r.err,
                      IF r.ok THEN r.blobs ELSE <<>>)
    /\ wire' = [wire EXCEPT !.kind = "received"]
    /\ UNCHANGED <<S, S2, uuid, calls, buffer, sent, call>>

NextWire ==
    \/ PackRaw
    \/ \E data \in DataForms : SerializeData(data)
    \/ Corrupt
    \/ Unpack
    \/ Deserialize

SpecWire == InitWire /\ [][NextWire]_vars

(***************************************************************************)
(* Claims about the binary envelope, under SpecWire                         *)
(***************************************************************************)
\* the header of a packed buffer as struct.unpack reads it: the count word
\* and the count + 1 offset words
HeaderCount(bytes) == Unpack64(SubSeq(bytes, 1, WordSize))

HeaderOffset(bytes, i) == Unpack64(OffsetWord(bytes, i))

Intact == wire.kind # "none" /\ wire.corrupt = -1

\* the buffer is laid out as the count, the offsets and the given blobs
LaidOut(bytes, blobs) ==
    LET M == Len(blobs)
    IN  /\ HeaderCount(bytes) = M
        /\ Len(bytes) >= WordSize * (M + 2)
        /\ HeaderOffset(bytes, 0) = WordSize * (M + 2)
        /\ HeaderOffset(bytes, M) = Len(bytes)
        /\ \A i \in 1..M :
              /\ HeaderOffset(bytes, i) - HeaderOffset(bytes, i - 1) = Len(blobs[i])
              /\ HeaderOffset(bytes, i - 1) <= HeaderOffset(bytes, i)
              /\ SubSeq(bytes, HeaderOffset(bytes, i - 1) + 1, HeaderOffset(bytes, i))
                    = blobs[i]

\* C1: binary envelope round trip.  binary.deserialize of what
\* binary.serialize(data, S) produced returns data and leaves the decoding
\* session with exactly S's blobs (same ids, same bytes, same order) and
\* S's object-spec table, whatever it held before.
C1_EnvelopeRoundTrip ==
    ret.op = "deserialize" /\ wire.corrupt = -1 =>
        /\ ret.ok
        /\ ret.out = sent.data
        /\ S2.blobs = S.blobs
        /\ S2._object_specs = S._object_specs
        /\ S2._objects = call.prior._objects

\* a session with two byte-identical blobs and two object specs was
\* received by a session that held a blob and a spec of its own
C1_Witness ==
    /\ ret.op = "deserialize"
    /\ wire.corrupt = -1
    /\ Len(S.blobs) = 2
    /\ S.blobs[1].v = S.blobs[2].v
    /\ Len(S._object_specs.pairs) = 2
    /\ call.prior.blobs # <<>>
    /\ call.prior._object_specs.pairs # <<>>
    /\ sent.data.t = "dict"

\* C2: binary envelope layout.  A packed buffer starts with the count M and
\* M + 1 offsets; offset[0] is the header length 8 * (M + 2), consecutive
\* offsets differ by the blob lengths and never decrease, offset[M] is the
\* buffer length and bytes [offset[i], offset[i+1]) are blob i.  For
\* binary.serialize M is 1 + the number of blobs of the session, blob 0 is
\* the JSON metadata document and the blobs follow in the order of its
\* blob_refs, the order in which add_blob stored them.
C2_EnvelopeLayout ==
    /\ Intact /\ call.codec = "pack" => LaidOut(wire.bytes, call.blobs)
    /\ Intact /\ call.codec = "serialize" =>
          LET M    == 1 + Len(S.blobs)
              meta == SubSeq(wire.bytes, HeaderOffset(wire.bytes, 0) + 1,
                             HeaderOffset(wire.bytes, 1))
              doc  == json_loads(meta)
          IN  /\ HeaderCount(wire.bytes) = M
              /\ doc.ok
              /\ doc.val = JDict(<<KV(KeyData, sent.data),
                                   KV(KeyBlobRefs,
                                      JList([i \in 1..Len(calls) |->
                                                JStr(RefId(calls[i].ref))])),
                                   KV(KeyObjects, S._object_specs)>>)
              /\ LaidOut(wire.bytes,
                         <<meta>> \o [i \in 1..Len(calls) |-> calls[i].bytes])

\* an envelope of a session with two blobs of different lengths
C2_Witness ==
    /\ Intact
    /\ wire.kind = "envelope"
    /\ Len(calls) = 2
    /\ Len(calls[1].bytes) > Len(calls[2].bytes)
    /\ HeaderCount(wire.bytes) = 3

\* C3 as stated: whichever offset of the header was overwritten, unpacking
\* and deserializing fail and the decoding session is left as it was.
C3_AnyCorruptOffsetFails ==
    wire.corrupt >= 0 /\ ret.op \in {"unpack", "deserialize"} =>
        /\ ~ ret.ok
        /\ S2 = call.prior

\* C3, amended: when the last offset, offset[M], was overwritten by another
\* value, _unpack_blobs fails its assertion, so does binary.deserialize,
\* and the decoding session is left as it was.
C3_LastOffsetChecked ==
    /\ wire.corrupt >= 0 /\ wire.corrupt = wire.count
          /\ ret.op \in {"unpack", "deserialize"} =>
          /\ ~ ret.ok
          /\ ret.err = "AssertionError"
    /\ wire.corrupt >= 0 /\ wire.corrupt = wire.count => S2 = call.prior

\* the last offset of an envelope was overwritten and deserialize refused
\* it, on a decoding session with contents of its own
C3_Witness ==
    /\ wire.corrupt = wire.count
    /\ wire.count = 3
    /\ ret.op = "deserialize"
    /\ ~ ret.ok
    /\ call.prior.blobs # <<>>

PackedScenarioC == call.codec = "pack" /\ call.blobs = ScenarioC /\ Intact

\* C4 as stated: Scenario C yields count 3 and 4 strictly increasing
\* offsets, and unpacking returns the three byte strings in order.
C4_ScenarioCStrictOffsets ==
    PackedScenarioC =>
        /\ HeaderCount(wire.bytes) = 3
        /\ \A i \in 1..3 : HeaderOffset(wire.bytes, i - 1) < HeaderOffset(wire.bytes, i)
        /\ ret.op = "unpack" => ret.ok /\ ret.out = ScenarioC

\* C4, amended: Scenario C yields count 3 and the 4 offsets 40, 45, 45, 52,
\* which never decrease (the empty blob repeats one), and unpacking returns
\* the three byte strings, the empty one included, in order.
C4_ScenarioC ==
    PackedScenarioC =>
        /\ HeaderCount(wire.bytes) = 3
        /\ [i \in 1..4 |-> HeaderOffset(wire.bytes, i - 1)] = <<40, 45, 45, 52>>
        /\ \A i \in 1..3 : HeaderOffset(wire.bytes, i - 1) <= HeaderOffset(wire.bytes, i)
        /\ ret.op = "unpack" => ret.ok /\ ret.out = ScenarioC

\* Scenario C was packed and unpacked
C4_Witness ==
    /\ PackedScenarioC
    /\ ret.op = "unpack"
    /\ ret.ok
    /\ Len(ret.out) = 3

(***************************************************************************)
(* Function decoding through the decode entries of a session:              *)
(* specification SpecFunction                                               *)
(***************************************************************************)
\* the most payloads a decode_list or decode_dict call is given
MaxPayloads == 2

KeyCls == Str(<<"c","l","s">>)

\* what function_encoding.encode produced earlier: nothing, or the
\* dictionary of a function
FunctionSpecs ==
    {JNull,
     JDict(<<KV(KeyCls, JStr(Str(<<"f">>)))>>),
     JDict(<<KV(KeyCls, JStr(Str(<<"p","i","c","k","l","e">>)))>>)}

\* the keywords of a call: none, trusted = True, trusted = False, or a
\* keyword that is no parameter of the decoder
Kwargs ==
    {<<>>, <<KV(KwTrusted, TRUE)>>, <<KV(KwTrusted, FALSE)>>, <<KV("strict", TRUE)>>}

FunctionNames == {Str(<<"f">>), Str(<<"g">>)}

PayloadLists ==
    UNION {[1..n -> FunctionSpecs] : n \in 0..MaxPayloads}

RECURSIVE DictsOfLen(_)
\* the dicts of n payloads, keyed by distinct names, in every order
DictsOfLen(n) ==
    IF n = 0 THEN {<<>>}
    ELSE UNION {{Append(d, KV(k, v)) :
                    k \in FunctionNames \ {d[i].k : i \in 1..Len(d)},
                    v \in FunctionSpecs} : d \in DictsOfLen(n - 1)}

PayloadDicts == UNION {DictsOfLen(n) : n \in 0..MaxPayloads}

DecodeEntries == {"decode", "decode_list", "decode_dict"}

InitFunction ==
    /\ S = Encoding__init
    /\ S2 = Encoding__init
    /\ uuid = 0
    /\ calls = <<>>
    /\ buffer = <<>>
    /\ wire = NoWire
    /\ sent = NoSent
    /\ ret = NoRet
    /\ call = NoCall

\* what a decode entry returned or raised
DecodeRet(op, values, kwargs, r) ==
    Ret(op, [values |-> values, kwargs |-> kwargs], r.ok,
        IF r.ok THEN "" ELSE r.err, IF r.ok THEN r.val ELSE JNull)

\* encoding.decode('function', value, **kwargs)
DecodeFunction(value, kwargs) ==
    /\ ret' = DecodeRet("decode", <<value>>, kwargs,
                        decode(S2, "function", value, kwargs))
    /\ call' = [codec |-> "function"]
    /\ UNCHANGED <<S, S2, uuid, calls, buffer, wire, sent>>

\* encoding.decode_list('function', values, **kwargs)
DecodeFunctionList(values, kwargs) ==
    /\ ret' = DecodeRet("decode_list", values, kwargs,
                        decode_list(S2, "function", values, kwargs))
    /\ call' = [codec |-> "function"]
    /\ UNCHANGED <<S, S2, uuid, calls, buffer, wire, sent>>

\* encoding.decode_dict('function', values, **kwargs)
DecodeFunctionDict(values, kwargs) ==
    /\ ret' = DecodeRet("decode_dict", [i \in 1..Len(values) |-> values[i].v], kwargs,
                        decode_dict(S2, "function", values, kwargs))
    /\ call' = [codec |-> "function"]
    /\ UNCHANGED <<S, S2, uuid, calls, buffer, wire, sent>>

NextFunction ==
    \/ \E value \in FunctionSpecs, kwargs \in Kwargs : DecodeFunction(value, kwargs)
    \/ \E values \in PayloadLists, kwargs \in Kwargs : DecodeFunctionList(values, kwargs)
    \/ \E values \in PayloadDicts, kwargs \in Kwargs : DecodeFunctionDict(values, kwargs)

SpecFunction == InitFunction /\ [][NextFunction]_vars

\* the values a decode entry returned, one for each payload, in order
Decoded ==
    CASE ret.op = "decode"      -> <<ret.out>>
      [] ret.op = "decode_list" -> ret.out
      [] ret.op = "decode_dict" -> [i \in 1..Len(ret.out) |-> ret.out[i].v]

\* a function decode entry was called with a payload that is not null
DecodedFunctions ==
    /\ call.codec = "function"
    /\ ret.op \in DecodeEntries
    /\ \E i \in 1..Len(ret.arg.values) : ret.arg.values[i] # JNull

\* the facility was called for payload i
FacilityCalled(i) == ret.ok /\ Decoded[i] # JNull

MaxBytesLen == 2

\* a pa.Array, by the stream the IPC writer emits for it
ArrowArray(ipc) == [py |-> "arrow", ipc |-> ipc]

\* a numpy scalar of a dtype, with item() = n (1 and 0 for a bool)
NumpyScalar(dtype, n) == [py |-> "numpy-scalar", dtype |-> dtype, n |-> n]

\* an ordered set of vaex.hash: extract() is items
OrderedSet(cls, items, count, nan_count, null_count) ==
    [py |-> "ordered-set", cls |-> cls, items |-> items, count |-> count,
     nan_count |-> nan_count, null_count |-> null_count]

\* a bytes object
Bytes(data) == [py |-> "bytes", data |-> data]

\* 'a', the two bytes of U+00E9 in UTF-8, and a byte no UTF-8 text holds
ByteValues == {97, 195, 169, 255}

ByteStrings == UNION {[1..n -> ByteValues] : n \in 0..MaxBytesLen}

SetInt64 == Str(<<"o","r","d","e","r","e","d","_","s","e","t","_","i","n","t","6","4">>)

SetBool == Str(<<"o","r","d","e","r","e","d","_","s","e","t","_","b","o","o","l">>)

DenseBuffers == {DenseInt8, DenseTime, DenseObject, MaskedInt8, MaskedObject}

ColumnarArrays == {ArrowArray(<<255, 255>>), ArrowArray(<<>>)}

OrderedSets ==
    {OrderedSet(SetInt64, <<>>, 0, 0, 0),
     OrderedSet(SetInt64, <<KV(JInt(7), JInt(0)), KV(JInt(-2), JInt(1))>>, 3, 0, 1),
     OrderedSet(SetBool, <<KV(JBool(TRUE), JInt(0))>>, 1, 1, 0)}

NumericScalars ==
    {NumpyScalar(Int8, -1), NumpyScalar(Int64, 5), NumpyScalar(UInt64, 7),
     NumpyScalar(Bool, 1), NumpyScalar(Bool, 0), NumpyScalar(Datetime64, 5)}

RawBytes == {Bytes(data) : data \in ByteStrings}

PlainScalars ==
    {JNull, JBool(TRUE), JBool(FALSE), JInt(0), JInt(-3),
     JStr(<<>>), JStr(Str(<<"a">>)), JStr(<<233>>)}

\* the values of the kinds the variable codec supports
VariableValues ==
    DenseBuffers \cup ColumnarArrays \cup OrderedSets \cup NumericScalars
        \cup RawBytes \cup PlainScalars

InitVariable ==
    /\ S = Encoding__init
    /\ S2 = Encoding__init
    /\ uuid = 0
    /\ calls = <<>>
    /\ buffer = <<>>
    /\ wire = NoWire
    /\ sent = NoSent
    /\ ret = NoRet
    /\ call = NoCall

\* encoding.encode('variable', obj); an array adds at most two blobs
EncodeVariable(obj) ==
    /\ uuid + 2 <= MaxBlobs
    /\ LET r == variable_encode(Running, obj)
       IN  /\ S' = r.st.e
           /\ uuid' = r.st.uuid
           /\ calls' = r.st.calls
           /\ ret' = Ret("encode", obj, r.ok, r.err, r.out)
    /\ call' = [codec |-> "variable"]
    /\ UNCHANGED <<S2, buffer, wire, sent>>

\* encoding.decode('variable', obj_spec), of what encode returned
DecodeVariable ==
    /\ call.codec = "variable"
    /\ ret.op = "encode"
    /\ ret.ok
    /\ LET r == decode(S, "variable", ret.out, <<>>)
       IN  ret' = Ret("decode", ret.arg, r.ok, IF r.ok THEN "" ELSE r.err,
                      IF r.ok THEN r.val ELSE JNull)
    /\ UNCHANGED <<S, S2, uuid, calls, buffer, wire, sent, call>>

NextVariable ==
    \/ \E obj \in VariableValues : EncodeVariable(obj)
    \/ DecodeVariable

SpecVariable == InitVariable /\ [][NextVariable]_vars

\* the tag of the wrapper for a kind of value, none for a plain scalar
TagOf(obj) ==
    CASE obj \in DenseBuffers   -> TagNdarray
      [] obj \in ColumnarArrays -> TagArrowArray
      [] obj \in OrderedSets    -> TagOrderedSet
      [] obj \in NumericScalars -> TagNumpyScalar
      [] OTHER                  -> <<>>

\* a {type, data} wrapper
IsWrapper(out) ==
    /\ ClassOf(out) = "dict"
    /\ DictKeys(out.pairs) = <<KeyType, KeyData>>
    /\ DictGet(out.pairs, KeyType).t = "str"

\* C9 as stated: encode of a supported value returns a {type, data} wrapper
\* tagged with its branch, or a plain scalar unchanged; decode of what encode
\* returned is a value of the same kind, equal to the original, bytes
\* included; a value encoded without a wrapper is returned by decode as is.
C9_VariableRoundTrip ==
    call.codec = "variable" =>
        /\ ret.op = "encode" =>
              /\ ret.ok
              /\ ret.arg \in PlainScalars => ret.out = ret.arg
              /\ ret.arg \notin PlainScalars \cup RawBytes =>
                    /\ IsWrapper(ret.out)
                    /\ DictGet(ret.out.pairs, KeyType).s = TagOf(ret.arg)
        /\ ret.op = "decode" =>
              /\ ret.ok
              /\ ClassOf(ret.out) = ClassOf(ret.arg)
              /\ ret.out = ret.arg

(***************************************************************************)
(* The binner codec: specification SpecBinner.  A binner is a record of    *)
(* the name of its class and of its attributes.                             *)
(***************************************************************************)
PrefixOrdinal == Str(<<"B","i","n","n","e","r","O","r","d","i","n","a","l","_">>)

PrefixScalar == Str(<<"B","i","n","n","e","r","S","c","a","l","a","r","_">>)

NonNativeMarker == Str(<<"_","n","o","n","_","n","a","t","i","v","e">>)

\* len('64_non_native'), the number of characters encode drops from the end
NonNativeStrip == Len(Str(<<"6","4">>) \o NonNativeMarker)

KeyExpression == Str(<<"e","x","p","r","e","s","s","i","o","n">>)

KeyDatatype == Str(<<"d","a","t","a","t","y","p","e">>)

KeyMinimum == Str(<<"m","i","n","i","m","u","m">>)

KeyMaximum == Str(<<"m","a","x","i","m","u","m">>)

TagOrdinal == Str(<<"o","r","d","i","n","a","l">>)

TagScalar == Str(<<"s","c","a","l","a","r">>)

\* the datatype of a binner class: name[len(prefix):], and for a name ending
\* in _non_native the dtype encoding of
\* np.dtype(datatype[:-len('64_non_native')]).newbyteorder()
binner_datatype(name, prefix) ==
    LET datatype == Slice(name, Len(prefix), Len(name))
        dtype    == np_dtype(Slice(datatype, 0, - NonNativeStrip))
    IN  IF EndsWith(datatype, NonNativeMarker)
        THEN IF dtype.ok THEN Ok(dtype_encode(newbyteorder(dtype.val))) ELSE dtype
        ELSE Ok(JStr(datatype))

\* the dictionary binner_encoding.encode returns for an ordinal binner, or
\* the exception that computing its datatype raised
binner_ordinal(st, binner, datatype) ==
    IF ~ datatype.ok THEN EncErr(st, datatype.err)
    ELSE EncOk(st, JDict(<<KV(KeyType, JStr(TagOrdinal)),
                           KV(KeyExpression, binner.expression),
                           KV(KeyDatatype, datatype.val),
                           KV(KeyCount, binner.ordinal_count),
                           KV(KeyMinimum, binner.min_value)>>))

\* the same for a scalar binner
binner_scalar(st, binner, datatype) ==
    IF ~ datatype.ok THEN EncErr(st, datatype.err)
    ELSE EncOk(st, JDict(<<KV(KeyType, JStr(TagScalar)),
                           KV(KeyExpression, binner.expression),
                           KV(KeyDatatype, datatype.val),
                           KV(KeyCount, binner.bins),
                           KV(KeyMinimum, binner.vmin),
                           KV(KeyMaximum, binner.vmax)>>))

\* binner_encoding.encode; name is type(binner).__name__
binner_encode(st, binner) ==
    IF StartsWith(binner.name, PrefixOrdinal)
    THEN binner_ordinal(st, binner, binner_datatype(binner.name, PrefixOrdinal))
    ELSE IF StartsWith(binner.name, PrefixScalar)
    THEN binner_scalar(st, binner, binner_datatype(binner.name, PrefixScalar))
    ELSE EncErr(st, "ValueError")

\* cls(*args) for cls = vaex.utils.find_type_from_dtype(vaex.superagg,
\* prefix, dtype): the factory is outside this module; the result stands for
\* the lookup and the constructor call
find_type_from_dtype(prefix, dtype, args) ==
    [py |-> "binner", prefix |-> prefix, dtype |-> dtype, args |-> args]

\* binner_encoding.decode, from the dtype that encoding.decode('dtype',
\* binner_spec['datatype']) returned or the exception it raised
binner_construct(spec, type, dtype) ==
        IF ~ dtype.ok THEN dtype
        ELSE IF type = JStr(TagOrdinal)
        THEN Ok(find_type_from_dtype(PrefixOrdinal, dtype.val,
                    <<DictGet(spec, KeyExpression), DictGet(spec, KeyCount),
                      DictGet(spec, KeyMinimum)>>))
        ELSE IF type = JStr(TagScalar)
        THEN Ok(find_type_from_dtype(PrefixScalar, dtype.val,
                    <<DictGet(spec, KeyExpression), DictGet(spec, KeyMinimum),
                      DictGet(spec, KeyMaximum), DictGet(spec, KeyCount)>>))
        ELSE Err("ValueError")

\* binner_encoding.decode
binner_decode(e, binner_spec) ==
    binner_construct(binner_spec.pairs, DictGet(binner_spec.pairs, KeyType),
                     decode(e, "dtype", DictGet(binner_spec.pairs, KeyDatatype), <<>>))

\* the fixed-width element types: bool, int8..int64, uint8..uint64, float32
\* and float64
ElementTypes ==
    {Bool} \cup {Dtype(k, n, FALSE) : k \in {"i", "u"}, n \in {1, 2, 4, 8}}
           \cup {Dtype("f", n, FALSE) : n \in {4, 8}}

Markers == {<<>>, NonNativeMarker}

Expressions == {JStr(Str(<<"x">>)), JStr(Str(<<"y">>))}

\* BinnerOrdinal_<T>(expression, ordinal_count, min_value)
BinnerOrdinal(T, marker, expression) ==
    [py |-> "binner", name |-> PrefixOrdinal \o dtype_str(T) \o marker,
     expression |-> expression, ordinal_count |-> JInt(2), min_value |-> JInt(0)]

\* BinnerScalar_<T>(expression, vmin, vmax, bins)
BinnerScalar(T, marker, expression) ==
    [py |-> "binner", name |-> PrefixScalar \o dtype_str(T) \o marker,
     expression |-> expression, vmin |-> JInt(0), vmax |-> JInt(10),
     bins |-> JInt(4)]

\* objects of classes with neither prefix
OtherObjects ==
    {[py |-> "binner", name |-> name, expression |-> expression] :
        name \in {Str(<<"G","r","i","d">>), Str(<<"B","i","n","n","e","r","_">>),
                  Str(<<"b","i","n","n","e","r","s","c","a","l","a","r","_">>)
                      \o dtype_str(Int8)},
        expression \in Expressions}

Binners ==
    {BinnerOrdinal(T, marker, expression) :
        T \in ElementTypes, marker \in Markers, expression \in Expressions}
    \cup {BinnerScalar(T, marker, expression) :
        T \in ElementTypes, marker \in Markers, expression \in Expressions}

InitBinner ==
    /\ S = Encoding__init
    /\ S2 = Encoding__init
    /\ uuid = 0
    /\ calls = <<>>
    /\ buffer = <<>>
    /\ wire = NoWire
    /\ sent = NoSent
    /\ ret = NoRet
    /\ call = NoCall

\* encoding.encode('binner', binner)
EncodeBinner(binner) ==
    /\ LET r == binner_encode(Running, binner)
       IN  ret' = Ret("encode", binner, r.ok, r.err, r.out)
    /\ call' = [codec |-> "binner"]
    /\ UNCHANGED <<S, S2, uuid, calls, buffer, wire, sent>>

\* encoding.decode('binner', binner_spec), of what encode returned
DecodeBinner ==
    /\ call.codec = "binner"
    /\ ret.op = "encode"
    /\ ret.ok
    /\ LET r == binner_decode(S, ret.out)
       IN  ret' = Ret("decode", ret.arg, r.ok, IF r.ok THEN "" ELSE r.err,
                      IF r.ok THEN r.val ELSE JNull)
    /\ UNCHANGED <<S, S2, uuid, calls, buffer, wire, sent, call>>

NextBinner ==
    \/ \E binner \in Binners \cup OtherObjects : EncodeBinner(binner)
    \/ DecodeBinner

SpecBinner == InitBinner /\ [][NextBinner]_vars

\* the binner of the last call is of class <prefix><T><marker>
IsClass(prefix, T, marker) ==
    /\ ret.arg \in Binners
    /\ ret.arg.name = prefix \o dtype_str(T) \o marker

\* element type T, byte-swapped when and only when the marker is there
Denoted(T, marker) == IF marker = <<>> THEN T ELSE newbyteorder(T)

KindTag(prefix) == IF prefix = PrefixOrdinal THEN TagOrdinal ELSE TagScalar

\* C10 as stated: for a class BinnerOrdinal_<T> or BinnerScalar_<T>, with or
\* without _non_native, encode yields the kind and a datatype that denotes
\* exactly <T>, byte-swapped when and only when the marker is there, and
\* decode looks up the constructor for that kind and dtype; a class with
\* neither prefix fails with an error.
C10_BinnerDtypeRecovery ==
    call.codec = "binner" =>
        /\ \A prefix \in {PrefixOrdinal, PrefixScalar}, T \in ElementTypes,
              marker \in Markers :
              IsClass(prefix, T, marker) =>
                  /\ ret.ok
                  /\ ret.op = "encode" =>
                        /\ DictGet(ret.out.pairs, KeyType) = JStr(KindTag(prefix))
                        /\ dtype_decode(DictGet(ret.out.pairs, KeyDatatype))
                               = Ok(Denoted(T, marker))
                  /\ ret.op = "decode" =>
                        /\ ret.out.prefix = prefix
                        /\ ret.out.dtype = Denoted(T, marker)
        /\ ret.arg \in OtherObjects => ~ ret.ok

====
